---------------------------- MODULE Spec2Model ----------------------------
(***************************************************************************)
(* Model of the UTXO coin-selection and transaction-crafting engine of the *)
(* bitcoind connector (src/bitcoind/tx.go): selectInputs, coinSelect,      *)
(* Connector.syncUnspent and Connector.craftTransaction, run by several    *)
(* goroutines against one Connector and one node.                          *)
(***************************************************************************)
EXTENDS Integers, Sequences, FiniteSets, TLC

(***************************************************************************)
(* Bounds of the model.                                                    *)
(***************************************************************************)
\* goroutines that call craftTransaction or syncUnspent on the connector
NumProcs == 2
\* craftTransaction calls started in one behaviour
MaxCrafts == 2
\* Width of btcutil.Amount (int64) and of the fee rate (uint64), scaled down
\* from 64 so that TLC can enumerate the values that wrap.
AmountBits == 8
\* largest target amount drawn for coinSelect on its own
MaxTarget == 9

\* c.cfg.MinConfirmations, the configured confirmation threshold
MinConfirmations == 1

Mod == 2 ^ AmountBits
Procs == 1 .. NumProcs

(***************************************************************************)
(* Integer conversions of Go: uint64(x) and int64(x) keep the low bits.    *)
(***************************************************************************)
Uint64(x) == x % Mod

Int64(x) == LET m == x % Mod IN IF m >= Mod \div 2 THEN m - Mod ELSE m

(***************************************************************************)
(* TxWeightEstimator: every input and every output adds a fixed weight.    *)
(***************************************************************************)
P2PKHInputWeight == 2
P2PKHOutputWeight == 1

\* Weight() after nIn AddP2PKHInput and nOut AddP2PKHOutput calls
Weight(nIn, nOut) == nIn * P2PKHInputWeight + nOut * P2PKHOutputWeight

(***************************************************************************)
(* btcjson.ListUnspentResult: TxID, Vout, Amount, Confirmations.  Amount is *)
(* kept in satoshi, the unit btcutil.NewAmount converts the node's value   *)
(* to.                                                                     *)
(***************************************************************************)
Utxo(txid, vout, amount, conf) ==
    [TxID |-> txid, Vout |-> vout, Amount |-> amount, Confirmations |-> conf]

OutPoint(u) == <<u.TxID, u.Vout>>

\* the wallet's unspent outputs at the node; two belong to transaction "a",
\* one is below the confirmation threshold
NodeOutputs ==
    { Utxo("a", 0, 5, 6), Utxo("a", 1, 3, 6), Utxo("b", 0, 3, 6),
      Utxo("c", 0, 4, 0) }

RECURSIVE SeqSum(_)
SeqSum(s) == IF s = <<>> THEN 0 ELSE Head(s).Amount + SeqSum(Tail(s))

RECURSIVE SetSum(_)
SetSum(S) ==
    IF S = {} THEN 0
    ELSE LET u == CHOOSE x \in S : TRUE IN u.Amount + SetSum(S \ {u})

\* the values of a map, as a set
MapValues(m) == { m[k] : k \in DOMAIN m }

\* every order in which the elements of a set can be enumerated
RECURSIVE Orders(_)
Orders(S) ==
    IF S = {} THEN { <<>> }
    ELSE UNION { { <<x>> \o o : o \in Orders(S \ {x}) } : x \in S }

EmptyMap == [k \in {} |-> Utxo("a", 0, 0, 0)]

MapPut(m, k, v) == [x \in DOMAIN m \cup {k} |-> IF x = k THEN v ELSE m[x]]

MapDelete(m, k) == [x \in DOMAIN m \ {k} |-> m[x]]

(***************************************************************************)
(* selectInputs(amt, inputsMap): walk the map in the iteration order       *)
(* `order` (Go picks one per range loop), append and add each input, stop  *)
(* as soon as the running sum reaches amt.                                 *)
(***************************************************************************)
RECURSIVE selectLoop(_, _, _, _)
selectLoop(amt, order, inputs, satSelected) ==
    IF order = <<>>
    THEN [ok |-> FALSE, total |-> 0, inputs |-> <<>>,
          amountNeeded |-> amt, amountAvailable |-> satSelected]
    ELSE LET input == Head(order)
             sat == Int64(satSelected + input.Amount)
         IN  IF sat >= amt
             THEN [ok |-> TRUE, total |-> sat,
                   inputs |-> Append(inputs, input),
                   amountNeeded |-> 0, amountAvailable |-> 0]
             ELSE selectLoop(amt, Tail(order), Append(inputs, input), sat)

\* selectInputs with the two fields of ErrInsufficientFunds exchanged
selectInputsSwapsFields(amt, order) ==
    LET r == selectLoop(amt, order, <<>>, 0)
    IN  IF r.ok THEN r
        ELSE [r EXCEPT !.amountNeeded = r.amountAvailable,
                       !.amountAvailable = r.amountNeeded]

selectInputs(amt, order) == selectLoop(amt, order, <<>>, 0)

(***************************************************************************)
(* One round of the loop of coinSelect for the current amtNeeded.          *)
(* kind = "fail"     : selectInputs returned ErrInsufficientFunds          *)
(*        "continue" : the overshoot does not pay the fee, next round      *)
(*        "done"     : converged                                           *)
(***************************************************************************)
RequiredFee(nInputs, feeRatePerWeight) ==
    Int64(Uint64(Weight(nInputs, 2)) * feeRatePerWeight)

\* coinSelect that asks the next round for the fee alone
coinSelectRoundDropsTarget(feeRatePerWeight, amt, amtNeeded, order) ==
    LET sel == selectInputs(amtNeeded, order)
        overShootAmt == Int64(sel.total - amt)
        requiredFee == RequiredFee(Len(sel.inputs), feeRatePerWeight)
    IN  IF ~sel.ok
        THEN [kind |-> "fail", selected |-> <<>>, changeAmt |-> 0,
              requiredFee |-> 0, amtNeeded |-> amtNeeded,
              amountNeeded |-> sel.amountNeeded,
              amountAvailable |-> sel.amountAvailable]
        ELSE IF overShootAmt < requiredFee
        THEN [kind |-> "continue", selected |-> sel.inputs, changeAmt |-> 0,
              requiredFee |-> requiredFee,
              amtNeeded |-> Int64(amtNeeded + requiredFee),
              amountNeeded |-> 0, amountAvailable |-> 0]
        ELSE [kind |-> "done", selected |-> sel.inputs,
              changeAmt |-> Int64(overShootAmt - requiredFee),
              requiredFee |-> requiredFee, amtNeeded |-> amtNeeded,
              amountNeeded |-> 0, amountAvailable |-> 0]

coinSelectRound(feeRatePerWeight, amt, amtNeeded, order) ==
    LET sel == selectInputs(amtNeeded, order)
        overShootAmt == Int64(sel.total - amt)
        requiredFee == RequiredFee(Len(sel.inputs), feeRatePerWeight)
    IN  IF ~sel.ok
        THEN [kind |-> "fail", selected |-> <<>>, changeAmt |-> 0,
              requiredFee |-> 0, amtNeeded |-> amtNeeded,
              amountNeeded |-> sel.amountNeeded,
              amountAvailable |-> sel.amountAvailable]
        ELSE IF overShootAmt < requiredFee
        THEN [kind |-> "continue", selected |-> sel.inputs, changeAmt |-> 0,
              requiredFee |-> requiredFee,
              amtNeeded |-> Int64(amt + requiredFee),
              amountNeeded |-> 0, amountAvailable |-> 0]
        ELSE [kind |-> "done", selected |-> sel.inputs,
              changeAmt |-> Int64(overShootAmt - requiredFee),
              requiredFee |-> requiredFee, amtNeeded |-> amtNeeded,
              amountNeeded |-> 0, amountAvailable |-> 0]

(***************************************************************************)
(* State.                                                                  *)
(*   unspent, unspentIsNil : c.unspent, the cache keyed by TxID, and       *)
(*                           whether it is still the nil map               *)
(*   coinSelectMtx         : c.coinSelectMtx, 0 when free, else the        *)
(*                           goroutine that locked it                      *)
(*   unspentSyncMtx        : c.unspentSyncMtx, likewise                    *)
(*   nodeLocked            : the outpoints locked at the node              *)
(*   loc                   : each goroutine's position and locals          *)
(*   crafts                : craftTransaction calls started                *)
(*   returned              : the transactions returned by successful       *)
(*                           craftTransaction calls, in order              *)
(*   crashed               : the Go runtime ended the process with a fatal *)
(*                           error                                         *)
(***************************************************************************)
VARIABLES unspent, unspentIsNil, coinSelectMtx, unspentSyncMtx, nodeLocked,
          loc, crafts, returned, crashed, cli

vars == <<unspent, unspentIsNil, coinSelectMtx, unspentSyncMtx, nodeLocked,
          loc, crafts, returned, crashed, cli>>

\* the variables of the connector
connectorVars ==
    <<unspent, unspentIsNil, coinSelectMtx, unspentSyncMtx, nodeLocked,
      loc, crafts, returned, crashed>>

\* a command-line flag: whether it was given, and its value ("" if not)
Flag(set, value) == [set |-> set, value |-> value]

Unset == Flag(FALSE, "")

\* pscli as long as no sendpayment command runs
NoCommand ==
    [pc |-> "none",
     flags |-> [media |-> Unset, asset |-> Unset, amount |-> Unset,
                receipt |-> Unset],
     media |-> "", asset |-> "", amount |-> "", receipt |-> "",
     err |-> "", requests |-> <<>>]

NoTx == [inputs |-> <<>>, outputs |-> {}]

\* a goroutine outside any call
Idle ==
    [pc |-> "idle", inCraft |-> FALSE, feeRate |-> 0, amt |-> 0,
     amtNeeded |-> 0, selected |-> <<>>, changeAmt |-> 0, requiredFee |-> 0,
     i |-> 0, list |-> <<>>, err |-> "", errNeeded |-> 0, errAvailable |-> 0,
     tx |-> NoTx,
     \* history of the running call, read by the properties only
     checked |-> "", synced |-> FALSE, selectedOnEmpty |-> FALSE,
     retried |-> FALSE, lockCalls |-> 0, deleted |-> FALSE, listed |-> {},
     calls |-> <<>>, healed |-> FALSE]

\* the (feeRatePerWeight, amt) arguments craftTransaction is called with
CraftRequests == { <<0, 2>>, <<0, 6>>, <<1, 2>> }

Init ==
    /\ unspent = EmptyMap
    /\ unspentIsNil = TRUE
    /\ coinSelectMtx = 0
    /\ unspentSyncMtx = 0
    /\ nodeLocked = {}
    /\ loc = [p \in Procs |-> Idle]
    /\ crafts = 0
    /\ returned = <<>>
    /\ crashed = FALSE
    /\ cli = NoCommand

At(p, l) == ~crashed /\ loc[p].pc = l

Goto(p, l) == loc' = [loc EXCEPT ![p].pc = l]

(***************************************************************************)
(* sync.Mutex.  Lock blocks while the mutex is held.  Unlock of a mutex    *)
(* that is not locked is a fatal error of the Go runtime; Unlock of a      *)
(* locked mutex frees it, whichever goroutine locked it.                   *)
(***************************************************************************)
UnlockFatal(mtx) == mtx = 0

(***************************************************************************)
(* The node (client contract).  ListUnspentMinMax returns, in some order,  *)
(* the unlocked outputs with at least minConf confirmations.               *)
(***************************************************************************)
ListUnspentMinMax(minConf) ==
    Orders({ u \in NodeOutputs :
               /\ u.Confirmations >= minConf
               /\ OutPoint(u) \notin nodeLocked })

(***************************************************************************)
(* Connector.syncUnspent                                                   *)
(***************************************************************************)
\* line 75: c.unspentSyncMtx.Lock()
SyncLock(p) ==
    /\ At(p, "s75")
    /\ UNCHANGED cli
    /\ unspentSyncMtx = 0
    /\ unspentSyncMtx' = p
    /\ Goto(p, "s82")
    /\ UNCHANGED <<unspent, unspentIsNil, coinSelectMtx, nodeLocked, crafts,
                   returned, crashed>>

\* syncUnspent that replaces the map before it looks at the error
SyncListFailClearsCache(p) ==
    /\ At(p, "s82")
    /\ UNCHANGED cli
    /\ unspent' = EmptyMap
    /\ unspentIsNil' = FALSE
    /\ loc' = [loc EXCEPT ![p].pc = "s76", ![p].err = "sync",
                          ![p].calls = Append(@, "ListUnspentMinMax")]
    /\ UNCHANGED <<coinSelectMtx, unspentSyncMtx, nodeLocked, crafts,
                   returned, crashed>>

\* lines 80-85: the list-unspent query fails
SyncListFail(p) ==
    /\ At(p, "s82")
    /\ UNCHANGED cli
    /\ loc' = [loc EXCEPT ![p].pc = "s76", ![p].err = "sync",
                          ![p].calls = Append(@, "ListUnspentMinMax")]
    /\ UNCHANGED <<unspent, unspentIsNil, coinSelectMtx, unspentSyncMtx,
                   nodeLocked, crafts, returned, crashed>>

\* syncUnspent that asks for outputs with any number of confirmations
SyncListAnyConfirmations(p) ==
    /\ At(p, "s82")
    /\ UNCHANGED cli
    /\ \E l \in ListUnspentMinMax(0) :
          loc' = [loc EXCEPT ![p].pc = "s88", ![p].list = l,
                             ![p].listed = { l[n] : n \in DOMAIN l },
                             ![p].calls = Append(@, "ListUnspentMinMax")]
    /\ UNCHANGED <<unspent, unspentIsNil, coinSelectMtx, unspentSyncMtx,
                   nodeLocked, crafts, returned, crashed>>

\* lines 80-82: the list-unspent query returns
SyncList(p) ==
    /\ At(p, "s82")
    /\ UNCHANGED cli
    /\ \E l \in ListUnspentMinMax(MinConfirmations) :
          loc' = [loc EXCEPT ![p].pc = "s88", ![p].list = l,
                             ![p].listed = { l[n] : n \in DOMAIN l },
                             ![p].calls = Append(@, "ListUnspentMinMax")]
    /\ UNCHANGED <<unspent, unspentIsNil, coinSelectMtx, unspentSyncMtx,
                   nodeLocked, crafts, returned, crashed>>

\* line 88: c.unspent = make(map[string]btcjson.ListUnspentResult, ...)
SyncMake(p) ==
    /\ At(p, "s88")
    /\ UNCHANGED cli
    /\ unspent' = EmptyMap
    /\ unspentIsNil' = FALSE
    /\ Goto(p, IF loc[p].list = <<>> THEN "s76" ELSE "s90")
    /\ UNCHANGED <<coinSelectMtx, unspentSyncMtx, nodeLocked, crafts,
                   returned, crashed>>

\* the key line 90 stores an output under
CacheKey(u) == u.TxID

\* lines 89-93: c.unspent[u.TxID] = u, for the next u of the list
SyncPut(p) ==
    /\ At(p, "s90")
    /\ UNCHANGED cli
    /\ LET u == Head(loc[p].list)
           rest == Tail(loc[p].list)
       IN  /\ unspent' = MapPut(unspent, CacheKey(u), u)
           /\ loc' = [loc EXCEPT ![p].list = rest,
                                 ![p].pc = IF rest = <<>> THEN "s76"
                                           ELSE "s90"]
    /\ UNCHANGED <<unspentIsNil, coinSelectMtx, unspentSyncMtx, nodeLocked,
                   crafts, returned, crashed>>

\* where syncUnspent returns to: line 131 of craftTransaction, or its
\* caller outside craftTransaction
AfterSync(p) ==
    IF loc[p].inCraft
    THEN [loc[p] EXCEPT !.pc = IF loc[p].err = "" THEN "l135" ELSE "l112",
                        !.synced = (loc[p].err = "")]
    ELSE Idle

\* line 76: defer c.unspentSyncMtx.Unlock(), then return
SyncUnlock(p) ==
    /\ At(p, "s76")
    /\ UNCHANGED cli
    /\ IF UnlockFatal(unspentSyncMtx)
       THEN /\ crashed' = TRUE
            /\ UNCHANGED <<unspentSyncMtx, loc>>
       ELSE /\ unspentSyncMtx' = 0
            /\ loc' = [loc EXCEPT ![p] = AfterSync(p)]
            /\ UNCHANGED crashed
    /\ UNCHANGED <<unspent, unspentIsNil, coinSelectMtx, nodeLocked, crafts,
                   returned>>

\* a goroutine other than a crafting one calls c.syncUnspent()
CallSync(p) ==
    /\ At(p, "idle")
    /\ UNCHANGED cli
    /\ Goto(p, "s75")
    /\ UNCHANGED <<unspent, unspentIsNil, coinSelectMtx, unspentSyncMtx,
                   nodeLocked, crafts, returned, crashed>>

(***************************************************************************)
(* Connector.craftTransaction                                              *)
(***************************************************************************)
\* a caller invokes craftTransaction(feeRatePerWeight, amt, address)
CallCraft(p) ==
    /\ At(p, "idle")
    /\ UNCHANGED cli
    /\ crafts < MaxCrafts
    /\ crafts' = crafts + 1
    /\ \E req \in CraftRequests :
          loc' = [loc EXCEPT ![p] = [Idle EXCEPT !.pc = "l111",
                                                 !.inCraft = TRUE,
                                                 !.feeRate = req[1],
                                                 !.amt = req[2],
                                                 !.amtNeeded = req[2]]]
    /\ UNCHANGED <<unspent, unspentIsNil, coinSelectMtx, unspentSyncMtx,
                   nodeLocked, returned, crashed>>

\* craftTransaction that does not wait for c.coinSelectMtx
CraftLockNoWait(p) ==
    /\ At(p, "l111")
    /\ UNCHANGED cli
    /\ coinSelectMtx' = p
    /\ Goto(p, "l121")
    /\ UNCHANGED <<unspent, unspentIsNil, unspentSyncMtx, nodeLocked, crafts,
                   returned, crashed>>

\* line 111: c.coinSelectMtx.Lock()
CraftLock(p) ==
    /\ At(p, "l111")
    /\ UNCHANGED cli
    /\ coinSelectMtx = 0
    /\ coinSelectMtx' = p
    /\ Goto(p, "l121")
    /\ UNCHANGED <<unspent, unspentIsNil, unspentSyncMtx, nodeLocked, crafts,
                   returned, crashed>>

\* craftTransaction whose unlock-all call releases nothing
UnlockAllKeepsLocks(p) ==
    /\ At(p, "l121")
    /\ UNCHANGED cli
    /\ loc' = [loc EXCEPT ![p].pc = "l127",
                          ![p].calls = Append(@, "LockUnspent(true)"),
                          ![p].healed = nodeLocked /= {}]
    /\ UNCHANGED <<unspent, unspentIsNil, coinSelectMtx, unspentSyncMtx,
                   nodeLocked, crafts, returned, crashed>>

\* line 121: c.client.LockUnspent(true, nil) releases every lock at the node
UnlockAll(p) ==
    /\ At(p, "l121")
    /\ UNCHANGED cli
    /\ nodeLocked' = {}
    /\ loc' = [loc EXCEPT ![p].pc = "l127",
                          ![p].calls = Append(@, "LockUnspent(true)"),
                          ![p].healed = nodeLocked /= {}]
    /\ UNCHANGED <<unspent, unspentIsNil, coinSelectMtx, unspentSyncMtx,
                   crafts, returned, crashed>>

\* craftTransaction that goes on after a failed unlock-all call
UnlockAllFailGoesOn(p) ==
    /\ At(p, "l121")
    /\ UNCHANGED cli
    /\ loc' = [loc EXCEPT ![p].pc = "l127", ![p].err = "unlock",
                          ![p].calls = Append(@, "LockUnspent(true)")]
    /\ UNCHANGED <<unspent, unspentIsNil, coinSelectMtx, unspentSyncMtx,
                   nodeLocked, crafts, returned, crashed>>

\* lines 121-123: the unlock-all call fails
UnlockAllFail(p) ==
    /\ At(p, "l121")
    /\ UNCHANGED cli
    /\ loc' = [loc EXCEPT ![p].pc = "l112", ![p].err = "unlock",
                          ![p].calls = Append(@, "LockUnspent(true)")]
    /\ UNCHANGED <<unspent, unspentIsNil, coinSelectMtx, unspentSyncMtx,
                   nodeLocked, crafts, returned, crashed>>

\* craftTransaction that never syncs the cache
NeedsSyncNever == FALSE

\* the test of line 128 that sends craftTransaction into syncUnspent
NeedsSync == unspentIsNil

\* lines 127-128: c.unspentSyncMtx.Lock(); if c.unspent == nil
CheckCache(p) ==
    /\ At(p, "l127")
    /\ UNCHANGED cli
    /\ unspentSyncMtx = 0
    /\ unspentSyncMtx' = p
    /\ loc' = [loc EXCEPT ![p].pc = IF NeedsSync THEN "l129" ELSE "l135",
                          ![p].checked = IF unspentIsNil THEN "nil"
                                         ELSE IF unspent = EmptyMap
                                         THEN "empty" ELSE "filled"]
    /\ UNCHANGED <<unspent, unspentIsNil, coinSelectMtx, nodeLocked, crafts,
                   returned, crashed>>

\* an Unlock of c.unspentSyncMtx in craftTransaction, going on at `next`
CraftUnlock(p, here, next) ==
    /\ At(p, here)
    /\ UNCHANGED cli
    /\ IF UnlockFatal(unspentSyncMtx)
       THEN /\ crashed' = TRUE
            /\ UNCHANGED <<unspentSyncMtx, loc>>
       ELSE /\ unspentSyncMtx' = 0
            /\ Goto(p, next)
            /\ UNCHANGED crashed
    /\ UNCHANGED <<unspent, unspentIsNil, coinSelectMtx, nodeLocked, crafts,
                   returned>>

\* lines 129-131: c.unspentSyncMtx.Unlock(), then c.syncUnspent()
UnlockForSync(p) == CraftUnlock(p, "l129", "s75")

\* line 135: c.unspentSyncMtx.Unlock(), also after the sync of line 131
UnlockAfterCheck(p) == CraftUnlock(p, "l135", "l140")

\* line 140: c.unspentSyncMtx.Lock()
LockForSelect(p) ==
    /\ At(p, "l140")
    /\ UNCHANGED cli
    /\ unspentSyncMtx = 0
    /\ unspentSyncMtx' = p
    /\ loc' = [loc EXCEPT ![p].pc = "l141"]
    /\ UNCHANGED <<unspent, unspentIsNil, coinSelectMtx, nodeLocked, crafts,
                   returned, crashed>>

\* lines 141-142, coinSelect lines 213-256: one round of the loop, over the
\* map as it is and in one of its iteration orders
CoinSelect(p) ==
    /\ At(p, "l141")
    /\ UNCHANGED cli
    /\ \E order \in Orders(MapValues(unspent)) :
          LET r == coinSelectRound(loc[p].feeRate, loc[p].amt,
                                   loc[p].amtNeeded, order)
              first == [loc[p] EXCEPT
                          !.selectedOnEmpty =
                              IF loc[p].retried THEN @ ELSE unspent = EmptyMap]
          IN  loc' = [loc EXCEPT ![p] =
                CASE r.kind = "done" ->
                       [first EXCEPT !.pc = "l143",
                                     !.selected = r.selected,
                                     !.changeAmt = r.changeAmt,
                                     !.requiredFee = r.requiredFee]
                  [] r.kind = "continue" ->
                       [first EXCEPT !.amtNeeded = r.amtNeeded,
                                     !.requiredFee = r.requiredFee,
                                     !.retried = TRUE]
                  [] r.kind = "fail" ->
                       [first EXCEPT !.pc = "l143",
                                     !.err = "insufficient",
                                     !.errNeeded = r.amountNeeded,
                                     !.errAvailable = r.amountAvailable]]
    /\ UNCHANGED <<unspent, unspentIsNil, coinSelectMtx, unspentSyncMtx,
                   nodeLocked, crafts, returned, crashed>>

\* where craftTransaction goes once every selected input is locked:
\* line 180, if changeAmt != 0 ask for a change address
AfterLocks(l) == IF l.changeAmt /= 0 THEN "l183" ELSE "l191"

\* craftTransaction that keeps c.unspentSyncMtx after coin selection
UnlockAfterSelectKeepsLock(p) ==
    /\ At(p, "l143")
    /\ UNCHANGED cli
    /\ Goto(p, IF loc[p].err /= "" THEN "l112"
               ELSE IF loc[p].selected = <<>> THEN AfterLocks(loc[p])
               ELSE "l165")
    /\ UNCHANGED <<unspent, unspentIsNil, coinSelectMtx, unspentSyncMtx,
                   nodeLocked, crafts, returned, crashed>>

\* lines 143-147: c.unspentSyncMtx.Unlock(); if err != nil return
UnlockAfterSelect(p) ==
    CraftUnlock(p, "l143",
                IF loc[p].err /= "" THEN "l112"
                ELSE IF loc[p].selected = <<>> THEN AfterLocks(loc[p])
                ELSE "l165")

\* craftTransaction that leaves the lock loop after the first input
LockInputStopsEarly(p) ==
    /\ At(p, "l165")
    /\ UNCHANGED cli
    /\ LET input == loc[p].selected[loc[p].i + 1]
       IN  /\ nodeLocked' = nodeLocked \cup {OutPoint(input)}
           /\ loc' = [loc EXCEPT
                        ![p].i = @ + 1,
                        ![p].lockCalls = @ + 1,
                        ![p].calls = Append(@, "LockUnspent(false)"),
                        ![p].tx.inputs = Append(@, OutPoint(input)),
                        ![p].pc = AfterLocks(loc[p])]
    /\ UNCHANGED <<unspent, unspentIsNil, coinSelectMtx, unspentSyncMtx,
                   crafts, returned, crashed>>

\* lines 158-174: LockUnspent(false, outpoint) for the next selected input
LockInput(p) ==
    /\ At(p, "l165")
    /\ UNCHANGED cli
    /\ LET input == loc[p].selected[loc[p].i + 1]
           last == loc[p].i + 1 = Len(loc[p].selected)
       IN  /\ nodeLocked' = nodeLocked \cup {OutPoint(input)}
           /\ loc' = [loc EXCEPT
                        ![p].i = @ + 1,
                        ![p].lockCalls = @ + 1,
                        ![p].calls = Append(@, "LockUnspent(false)"),
                        ![p].tx.inputs = Append(@, OutPoint(input)),
                        ![p].pc = IF last THEN AfterLocks(loc[p])
                                  ELSE "l165"]
    /\ UNCHANGED <<unspent, unspentIsNil, coinSelectMtx, unspentSyncMtx,
                   crafts, returned, crashed>>

\* craftTransaction that releases the locks it placed when a lock call fails
LockInputFailRollsBack(p) ==
    /\ At(p, "l165")
    /\ UNCHANGED cli
    /\ nodeLocked' = nodeLocked \ { loc[p].tx.inputs[n] :
                                      n \in DOMAIN loc[p].tx.inputs }
    /\ loc' = [loc EXCEPT ![p].pc = "l112", ![p].err = "lock",
                          ![p].lockCalls = @ + 1,
                          ![p].calls = Append(@, "LockUnspent(false)")]
    /\ UNCHANGED <<unspent, unspentIsNil, coinSelectMtx, unspentSyncMtx,
                   crafts, returned, crashed>>

\* lines 165-168: the lock call fails
LockInputFail(p) ==
    /\ At(p, "l165")
    /\ UNCHANGED cli
    /\ loc' = [loc EXCEPT ![p].pc = "l112", ![p].err = "lock",
                          ![p].lockCalls = @ + 1,
                          ![p].calls = Append(@, "LockUnspent(false)")]
    /\ UNCHANGED <<unspent, unspentIsNil, coinSelectMtx, unspentSyncMtx,
                   nodeLocked, crafts, returned, crashed>>

\* the outputs map of lines 178-188
TxOutputs(l, withChange) ==
    {<<"address", l.amt>>} \cup
    (IF withChange THEN {<<"change", l.changeAmt>>} ELSE {})

\* lines 183-187: c.client.GetNewAddress(""), outputs[changeAddr] = changeAmt
GetChangeAddress(p) ==
    /\ At(p, "l183")
    /\ UNCHANGED cli
    /\ loc' = [loc EXCEPT ![p].pc = "l191",
                          ![p].calls = Append(@, "GetNewAddress"),
                          ![p].tx.outputs = TxOutputs(loc[p], TRUE)]
    /\ UNCHANGED <<unspent, unspentIsNil, coinSelectMtx, unspentSyncMtx,
                   nodeLocked, crafts, returned, crashed>>

\* lines 183-186: the change-address call fails
GetChangeAddressFail(p) ==
    /\ At(p, "l183")
    /\ UNCHANGED cli
    /\ loc' = [loc EXCEPT ![p].pc = "l112", ![p].err = "address",
                          ![p].calls = Append(@, "GetNewAddress")]
    /\ UNCHANGED <<unspent, unspentIsNil, coinSelectMtx, unspentSyncMtx,
                   nodeLocked, crafts, returned, crashed>>

\* lines 190-191: c.client.CreateRawTransaction(inputs, outputs, &lockTime)
CreateRawTransaction(p) ==
    /\ At(p, "l191")
    /\ UNCHANGED cli
    /\ loc' = [loc EXCEPT
                 ![p].pc = "l196",
                 ![p].calls = Append(@, "CreateRawTransaction"),
                 ![p].tx.outputs = IF @ = {} THEN TxOutputs(loc[p], FALSE)
                                   ELSE @]
    /\ UNCHANGED <<unspent, unspentIsNil, coinSelectMtx, unspentSyncMtx,
                   nodeLocked, crafts, returned, crashed>>

\* craftTransaction that goes on to the removal when the assembly failed
CreateRawTransactionFailRemoves(p) ==
    /\ At(p, "l191")
    /\ UNCHANGED cli
    /\ loc' = [loc EXCEPT ![p].pc = "l196", ![p].err = "rawtx",
                          ![p].calls = Append(@, "CreateRawTransaction")]
    /\ UNCHANGED <<unspent, unspentIsNil, coinSelectMtx, unspentSyncMtx,
                   nodeLocked, crafts, returned, crashed>>

\* lines 191-194: raw-transaction assembly fails
CreateRawTransactionFail(p) ==
    /\ At(p, "l191")
    /\ UNCHANGED cli
    /\ loc' = [loc EXCEPT ![p].pc = "l112", ![p].err = "rawtx",
                          ![p].calls = Append(@, "CreateRawTransaction")]
    /\ UNCHANGED <<unspent, unspentIsNil, coinSelectMtx, unspentSyncMtx,
                   nodeLocked, crafts, returned, crashed>>

\* line 196: c.unspentSyncMtx.Lock()
LockForRemove(p) ==
    /\ At(p, "l196")
    /\ UNCHANGED cli
    /\ unspentSyncMtx = 0
    /\ unspentSyncMtx' = p
    /\ Goto(p, "l198")
    /\ UNCHANGED <<unspent, unspentIsNil, coinSelectMtx, nodeLocked, crafts,
                   returned, crashed>>

\* lines 197-199: delete(c.unspent, input.TxID) for every selected input
RECURSIVE DeleteAll(_, _)
DeleteAll(m, inputs) ==
    IF inputs = <<>> THEN m
    ELSE DeleteAll(MapDelete(m, Head(inputs).TxID), Tail(inputs))

RemoveSelected(p) ==
    /\ At(p, "l198")
    /\ UNCHANGED cli
    /\ unspent' = DeleteAll(unspent, loc[p].selected)
    /\ loc' = [loc EXCEPT ![p].pc = "l200", ![p].deleted = TRUE]
    /\ UNCHANGED <<unspentIsNil, coinSelectMtx, unspentSyncMtx, nodeLocked,
                   crafts, returned, crashed>>

\* line 200: c.unspentSyncMtx.Unlock()
UnlockAfterRemove(p) == CraftUnlock(p, "l200", "l112")

\* line 112 (deferred) and the return: c.coinSelectMtx.Unlock(); the caller
\* gets the transaction of a call that did not fail
Return(p) ==
    /\ At(p, "l112")
    /\ UNCHANGED cli
    /\ IF UnlockFatal(coinSelectMtx)
       THEN /\ crashed' = TRUE
            /\ UNCHANGED <<coinSelectMtx, loc, returned>>
       ELSE /\ coinSelectMtx' = 0
            /\ loc' = [loc EXCEPT ![p] = Idle]
            /\ returned' = IF loc[p].err = "" THEN Append(returned, loc[p].tx)
                           ELSE returned
            /\ UNCHANGED crashed
    /\ UNCHANGED <<unspent, unspentIsNil, unspentSyncMtx, nodeLocked, crafts>>

(***************************************************************************)
(* Two goroutines inside c.unspent at once, one of them writing (reachable *)
(* only once an Unlock freed the mutex under its holder): a data race on a *)
(* Go map.  The accesses interleave as the steps above do, or the runtime  *)
(* detects the concurrent access and ends the process.                     *)
(***************************************************************************)
ReadsMap(p) == loc[p].pc = "l141"

WritesMap(p) == loc[p].pc \in {"s90", "l198"}

ConcurrentMapAccess ==
    /\ ~crashed
    /\ UNCHANGED cli
    /\ \E p, q \in Procs :
          /\ p /= q
          /\ WritesMap(p)
          /\ ReadsMap(q) \/ WritesMap(q)
    /\ crashed' = TRUE
    /\ UNCHANGED <<unspent, unspentIsNil, coinSelectMtx, unspentSyncMtx,
                   nodeLocked, loc, crafts, returned>>

Next ==
    \/ \E p \in Procs :
          \/ CallSync(p)
          \/ SyncLock(p)
          \/ SyncListFail(p)
          \/ SyncList(p)
          \/ SyncMake(p)
          \/ SyncPut(p)
          \/ SyncUnlock(p)
          \/ CallCraft(p)
          \/ CraftLock(p)
          \/ UnlockAll(p)
          \/ UnlockAllFail(p)
          \/ CheckCache(p)
          \/ UnlockForSync(p)
          \/ UnlockAfterCheck(p)
          \/ LockForSelect(p)
          \/ CoinSelect(p)
          \/ UnlockAfterSelect(p)
          \/ LockInput(p)
          \/ LockInputFail(p)
          \/ GetChangeAddress(p)
          \/ GetChangeAddressFail(p)
          \/ CreateRawTransaction(p)
          \/ CreateRawTransactionFail(p)
          \/ LockForRemove(p)
          \/ RemoveSelected(p)
          \/ UnlockAfterRemove(p)
          \/ Return(p)
    \/ ConcurrentMapAccess

Spec == Init /\ [][Next]_vars

(***************************************************************************)
(* coinSelect on its own: the unspent map, the target amount and the fee   *)
(* rate are drawn from bounded sets, goroutine 1 stands at line 141 with   *)
(* both mutexes held, and the only steps are the rounds of coinSelect.     *)
(***************************************************************************)
SelectTxIDs == {"a", "b", "c"}

SelectAmounts == {1, 3, 5}

\* every map from some transaction ids to an output of that transaction
SelectMaps ==
    UNION { [K -> SelectAmounts] : K \in SUBSET SelectTxIDs }

AsUnspent(m) == [k \in DOMAIN m |-> Utxo(k, 0, m[k], MinConfirmations)]

\* fee rates that keep weight * feeRate small, and fee rates for which the
\* product leaves the range of the signed or of the unsigned type
SelectFeeRates ==
    {0, 1, 2, Mod \div 8 - 1, Mod \div 8, Mod \div 4, Mod - 1}

InitSelect ==
    /\ \E m \in SelectMaps : unspent = AsUnspent(m)
    /\ unspentIsNil = FALSE
    /\ coinSelectMtx = 1
    /\ unspentSyncMtx = 1
    /\ nodeLocked = {}
    /\ \E amt \in 0 .. MaxTarget, feeRate \in SelectFeeRates :
          loc = [p \in Procs |->
                   IF p = 1
                   THEN [Idle EXCEPT !.pc = "l141", !.inCraft = TRUE,
                                     !.feeRate = feeRate, !.amt = amt,
                                     !.amtNeeded = amt, !.checked = "filled"]
                   ELSE Idle]
    /\ crafts = 1
    /\ returned = <<>>
    /\ crashed = FALSE
    /\ cli = NoCommand

NextSelect == CoinSelect(1)

SpecSelect == InitSelect /\ [][NextSelect]_vars

(***************************************************************************)
(* Properties.                                                             *)
(***************************************************************************)
\* coinSelect has returned to line 143 without an error
Selected(p) == loc[p].pc = "l143" /\ loc[p].err = ""

\* coinSelect has returned ErrInsufficientFunds to line 143
Insufficient(p) == loc[p].pc = "l143" /\ loc[p].err = "insufficient"

\* C3: whenever coinSelect succeeds, the selected outputs sum to at least
\* the target amount plus the required fee, and the change amount is that
\* sum minus the target minus the required fee, and is not negative.
C3_SelectionSound ==
    \A p \in Procs :
       Selected(p) =>
          LET sum == SeqSum(loc[p].selected)
          IN  /\ sum >= loc[p].amt + loc[p].requiredFee
              /\ loc[p].changeAmt = sum - loc[p].amt - loc[p].requiredFee
              /\ loc[p].changeAmt >= 0

\* C4: whenever coinSelect succeeds, the required fee is the fee rate times
\* the weight of one input per selected output plus two outputs.
C4_FeeFormula ==
    \A p \in Procs :
       Selected(p) =>
          loc[p].requiredFee =
             loc[p].feeRate * Weight(Len(loc[p].selected), 2)

\* the goroutine is inside craftTransaction, past line 111
InCraft(p) == loc[p].inCraft /\ loc[p].pc \notin {"idle", "l111"}

\* craftTransaction is about to return an error (only the deferred Unlock
\* of line 112 is left)
CraftFailed(p) == loc[p].pc = "l112" /\ loc[p].err /= ""

\* the outpoints a returned transaction spends
InputsOf(tx) == { tx.inputs[n] : n \in DOMAIN tx.inputs }

\* C1: no outpoint is an input of two transactions returned by successful
\* craftTransaction calls.
C1_NoDoubleSpend ==
    \A m, n \in DOMAIN returned :
       m < n => InputsOf(returned[m]) \cap InputsOf(returned[n]) = {}

\* C2: at most one goroutine is between acquiring c.coinSelectMtx and
\* returning from craftTransaction.
C2_MutualExclusion == Cardinality({ p \in Procs : InCraft(p) }) <= 1

C2_Witness ==
    \E p, q \in Procs : loc[p].pc = "l165" /\ loc[q].pc = "l111"

\* C5 as stated: a craftTransaction call that returns an error has not
\* changed the cache, neither by a removal nor by its own sync.
C5_FailedCraftLeavesCache ==
    \A p \in Procs : CraftFailed(p) => ~loc[p].deleted /\ ~loc[p].synced

\* C5 amended: a craftTransaction call that fails has removed nothing from
\* the cache (the removal runs only after the raw transaction was
\* assembled), and has synced the cache only if it found it nil.
C5_FailedCraftRemovesNothing ==
    \A p \in Procs :
       loc[p].err /= "" =>
          /\ ~loc[p].deleted
          /\ loc[p].synced => loc[p].checked = "nil"

C5_Witness ==
    \E p \in Procs :
       /\ CraftFailed(p)
       /\ loc[p].err = "rawtx"
       /\ loc[p].lockCalls >= 1
       /\ \A n \in DOMAIN loc[p].selected :
             loc[p].selected[n].TxID \in DOMAIN unspent

\* C6 as stated: a craftTransaction call that found the cache without
\* outputs, nil or empty, has synced it when coin selection runs.
C6_SyncWhenEmpty ==
    \A p \in Procs :
       loc[p].pc = "l141" /\ loc[p].checked \in {"nil", "empty"}
          => loc[p].synced

\* C6 amended: a craftTransaction call that found the cache nil has synced
\* it before coin selection runs; a call that found it initialised, empty
\* or not, does not sync.
C6_SyncWhenNil ==
    \A p \in Procs :
       /\ loc[p].pc \in {"l140", "l141", "l143"} /\ loc[p].checked = "nil"
             => loc[p].synced
       /\ loc[p].checked \in {"empty", "filled"} => ~loc[p].synced

C6_Witness ==
    \E p \in Procs :
       loc[p].pc = "l141" /\ loc[p].checked = "nil" /\ loc[p].synced

\* C7: a syncUnspent call whose list-unspent query fails returns an error
\* and none of its steps changes the cache.
C7_SyncFailureKeepsCache ==
    [][\A p \in Procs :
          (\/ loc[p].pc = "s82" /\ loc'[p].err = "sync"
           \/ loc[p].pc \in {"s75", "s76"} /\ loc'[p] /= loc[p])
          => (unspent' = unspent /\ unspentIsNil' = unspentIsNil)]_vars

C7_Witness ==
    \E p \in Procs :
       loc[p].pc = "s76" /\ loc[p].err = "sync" /\ unspent /= EmptyMap

\* C8: when syncUnspent has stored the list the node returned, the cache
\* holds exactly the returned outputs, and their total.
C8_SyncMirrorsNode ==
    \A p \in Procs :
       loc[p].pc = "s76" /\ loc[p].err = ""
          => /\ MapValues(unspent) = loc[p].listed
             /\ SetSum(MapValues(unspent)) = SetSum(loc[p].listed)

\* C9: when coinSelect fails, it fails with ErrInsufficientFunds whose
\* available field is the sum of the whole set.  If the set sums to less
\* than the target, every first round fails and needed is the target.  If
\* the set covers the target, needed is the target plus the required fee of
\* the last round (no fee when the empty set fails in the first round), and
\* the set does not cover it.  A round whose needed amount the set does not
\* cover fails.
C9_InsufficientFunds ==
    \A p \in Procs :
       LET total == SetSum(MapValues(unspent))
       IN  /\ Insufficient(p) =>
                /\ loc[p].errAvailable = total
                /\ total < loc[p].errNeeded \/ unspent = EmptyMap
                /\ total < loc[p].amt =>
                      ~loc[p].retried /\ loc[p].errNeeded = loc[p].amt
                /\ total >= loc[p].amt =>
                      loc[p].errNeeded = loc[p].amt + loc[p].requiredFee
                /\ loc[p].retried => total >= loc[p].amt
           /\ loc[p].pc = "l141" /\ total < loc[p].amtNeeded =>
                \A order \in Orders(MapValues(unspent)) :
                   coinSelectRound(loc[p].feeRate, loc[p].amt,
                                   loc[p].amtNeeded, order).kind = "fail"

C9_Witness ==
    \E p \in Procs :
       /\ Insufficient(p)
       /\ loc[p].retried
       /\ loc[p].errNeeded > loc[p].amt
       /\ SetSum(MapValues(unspent)) >= loc[p].amt

\* C10: a craftTransaction call whose coin selection runs on an empty cache
\* with a target above zero fails with ErrInsufficientFunds{target, 0} and
\* issues no lock call to the node.
C10_EmptyCache ==
    \A p \in Procs :
       loc[p].selectedOnEmpty /\ loc[p].amt > 0 =>
          /\ loc[p].pc \in {"l143", "l112"}
          /\ loc[p].err = "insufficient"
          /\ loc[p].errNeeded = loc[p].amt
          /\ loc[p].errAvailable = 0
          /\ loc[p].lockCalls = 0
          /\ nodeLocked = {}

C10_Witness ==
    \E p \in Procs :
       /\ CraftFailed(p)
       /\ loc[p].selectedOnEmpty
       /\ loc[p].checked = "empty"
       /\ loc[p].amt > 0

\* the outpoints of the first n selected outputs
SelectedOutPoints(l, n) == { OutPoint(l.selected[k]) : k \in 1 .. n }

\* C11: when the lock call for the k-th selected output fails, the call
\* fails with the lock error; the k-1 outputs locked before are locked at
\* the node and no other output is; no change address was asked for, no raw
\* transaction was assembled and nothing was removed from the cache.
C11_LockFailure ==
    \A p \in Procs :
       loc[p].err = "lock" =>
          /\ loc[p].pc = "l112"
          /\ loc[p].lockCalls = loc[p].i + 1
          /\ loc[p].i < Len(loc[p].selected)
          /\ nodeLocked = SelectedOutPoints(loc[p], loc[p].i)
          /\ loc[p].tx.outputs = {}
          /\ ~loc[p].deleted

C11_Witness ==
    \E p \in Procs :
       /\ loc[p].err = "lock"
       /\ loc[p].i = 1
       /\ Len(loc[p].selected) = 2
       /\ nodeLocked = SelectedOutPoints(loc[p], 1)
       /\ loc[p].tx.inputs = <<OutPoint(loc[p].selected[1])>>

(***************************************************************************)
(* Two runs of coinSelect on the same unspent set, target and fee rate,   *)
(* each choosing its own iteration orders.  The fee rates keep every      *)
(* product and sum inside the integer range.                              *)
(***************************************************************************)
PairFeeRates == {0, 1, 2}

InitSelectPair ==
    /\ \E m \in SelectMaps : unspent = AsUnspent(m)
    /\ unspentIsNil = FALSE
    /\ coinSelectMtx = 1
    /\ unspentSyncMtx = 1
    /\ nodeLocked = {}
    /\ \E amt \in 0 .. MaxTarget, feeRate \in PairFeeRates :
          loc = [p \in Procs |->
                   [Idle EXCEPT !.pc = "l141", !.inCraft = TRUE,
                                !.feeRate = feeRate, !.amt = amt,
                                !.amtNeeded = amt, !.checked = "filled"]]
    /\ crafts = NumProcs
    /\ returned = <<>>
    /\ crashed = FALSE
    /\ cli = NoCommand

NextSelectPair == \E p \in Procs : CoinSelect(p)

SpecSelectPair == InitSelectPair /\ [][NextSelectPair]_vars

\* C12: if one run of coinSelect fails with ErrInsufficientFunds, no other
\* run on the same unspent set, target and fee rate succeeds, whatever
\* iteration orders the two runs use.
C12_OrderIndependent ==
    \A p, q \in Procs : Insufficient(p) => ~Selected(q)

(***************************************************************************)
(* syncUnspent alone: goroutines that only call c.syncUnspent(), against  *)
(* a node whose set of locked outputs does not change.                    *)
(***************************************************************************)
InitSync ==
    /\ unspent = EmptyMap
    /\ unspentIsNil = TRUE
    /\ coinSelectMtx = 0
    /\ unspentSyncMtx = 0
    /\ nodeLocked \in SUBSET { OutPoint(u) : u \in NodeOutputs }
    /\ loc = [p \in Procs |-> Idle]
    /\ crafts = 0
    /\ returned = <<>>
    /\ crashed = FALSE
    /\ cli = NoCommand

NextSync ==
    \E p \in Procs :
       \/ CallSync(p)
       \/ SyncLock(p)
       \/ SyncList(p)
       \/ SyncListFail(p)
       \/ SyncMake(p)
       \/ SyncPut(p)
       \/ SyncUnlock(p)

SpecSync == InitSync /\ [][NextSync]_vars

\* lines 88-93 as a whole: the map the loop builds from the node's answer
RECURSIVE PutAll(_, _)
PutAll(list, m) ==
    IF list = <<>> THEN m
    ELSE PutAll(Tail(list), MapPut(m, CacheKey(Head(list)), Head(list)))

\* C13: a successful sync that follows a successful sync, the node's state
\* being the same for both, leaves the cache content the first one left:
\* when the second sync holds the node's answer and is about to replace the
\* map, the map it will build equals the map the first sync built.
C13_SyncIdempotent ==
    \A p \in Procs :
       loc[p].pc = "s88" /\ ~unspentIsNil
          => PutAll(loc[p].list, EmptyMap) = unspent

C15_NeededAmountGrows ==
    [][\A p \in Procs :
          loc[p].pc = "l141" /\ loc'[p].pc = "l141"
             => loc'[p].amtNeeded > loc[p].amtNeeded]_vars

\* C16: in every craftTransaction call the first call to the node is the
\* unlock-all; it is made once, before the cache is looked at or synced and
\* before any output is locked; when it fails the call returns the error
\* having made no other call to the node.
C16_UnlockAllFirst ==
    \A p \in Procs :
       loc[p].inCraft =>
          /\ loc[p].calls /= <<>>
                => /\ loc[p].calls[1] = "LockUnspent(true)"
                   /\ \A n \in 2 .. Len(loc[p].calls) :
                         loc[p].calls[n] /= "LockUnspent(true)"
          /\ loc[p].calls = <<>>
                => /\ loc[p].pc \in {"l111", "l121"}
                   /\ loc[p].checked = ""
                   /\ ~loc[p].synced
                   /\ loc[p].lockCalls = 0
          /\ loc[p].pc \in {"l111", "l121"} => loc[p].calls = <<>>
          /\ loc[p].err = "unlock"
                => /\ loc[p].pc = "l112"
                   /\ loc[p].calls = <<"LockUnspent(true)">>
                   /\ loc[p].checked = ""

\* a craft that made the unlock-all call, then locked an output, and
\* returns its transaction
C16_Witness ==
    \E p \in Procs :
       /\ loc[p].pc = "l112"
       /\ loc[p].err = ""
       /\ Len(loc[p].calls) >= 3
       /\ loc[p].calls[1] = "LockUnspent(true)"
       /\ loc[p].calls[2] = "LockUnspent(false)"

\* C17: once a craft has completed its unlock-all step, and until it locks
\* its own first output, no output is locked at the node, whatever locks
\* earlier crafts left behind; in particular none is locked while the craft
\* runs coin selection.
C17_StaleLocksHealed ==
    \A p \in Procs :
       /\ loc[p].inCraft /\ loc[p].calls /= <<>> /\ loc[p].err /= "unlock"
             /\ loc[p].lockCalls = 0
             => nodeLocked = {}
       /\ loc[p].pc \in {"l140", "l141", "l143"} => nodeLocked = {}

\* a craft runs coin selection after its unlock-all released locks that
\* only a failed craft can have left: no craft has returned a transaction
C17_Witness ==
    \E p \in Procs :
       /\ loc[p].pc = "l141"
       /\ loc[p].healed
       /\ returned = <<>>
       /\ nodeLocked = {}
       /\ crafts = 2

\* the craft of goroutine p has made, or is about to make, the call that
\* assembles the raw transaction
AtAssembly(p) ==
    /\ loc[p].inCraft
    /\ \/ loc[p].pc \in {"l183", "l191", "l196", "l198", "l200"}
       \/ \E n \in DOMAIN loc[p].calls :
             loc[p].calls[n] \in {"GetNewAddress", "CreateRawTransaction"}
       \/ loc[p].pc = "l112" /\ loc[p].err = ""

\* C18: the raw transaction is assembled only when a lock call has
\* succeeded for every selected output; its inputs are the selected
\* outputs, in selection order; and from the assembly until the craft has
\* returned every selected output is locked at the node.
C18_LockBeforeBuild ==
    \A p \in Procs :
       AtAssembly(p) =>
          /\ loc[p].i = Len(loc[p].selected)
          /\ loc[p].lockCalls = Len(loc[p].selected)
          /\ loc[p].tx.inputs =
                [n \in DOMAIN loc[p].selected |-> OutPoint(loc[p].selected[n])]
          /\ SelectedOutPoints(loc[p], Len(loc[p].selected)) \subseteq nodeLocked

\* a craft that selected two outputs returns its transaction
C18_Witness ==
    \E p \in Procs :
       /\ loc[p].pc = "l112"
       /\ loc[p].err = ""
       /\ Len(loc[p].selected) = 2
       /\ Len(loc[p].tx.inputs) = 2
       /\ Cardinality(nodeLocked) = 2

(***************************************************************************)
(* craftTransaction from coin selection to its return, for every cache,   *)
(* target and fee rate of SpecSelect.                                      *)
(***************************************************************************)
NextCraft ==
    \/ CoinSelect(1)
    \/ UnlockAfterSelect(1)
    \/ LockInput(1)
    \/ LockInputFail(1)
    \/ GetChangeAddress(1)
    \/ GetChangeAddressFail(1)
    \/ CreateRawTransaction(1)
    \/ CreateRawTransactionFail(1)
    \/ LockForRemove(1)
    \/ RemoveSelected(1)
    \/ UnlockAfterRemove(1)
    \/ Return(1)

SpecCraft == InitSelect /\ [][NextCraft]_vars

\* the amounts of a set of (address, amount) outputs, added up
RECURSIVE OutputSum(_)
OutputSum(outs) ==
    IF outs = {} THEN 0
    ELSE LET o == CHOOSE x \in outs : TRUE
         IN  o[2] + OutputSum(outs \ {o})

\* C19: the assembled transaction pays exactly the target amount to the
\* destination; the change address was asked for and a change output of
\* changeAmt was added if and only if changeAmt > 0; and the inputs' sum
\* minus the outputs' sum is requiredFee.
C19_ChangeOutput ==
    \A p \in Procs :
       loc[p].pc = "l196" /\ loc[p].err = "" =>
          LET outs == loc[p].tx.outputs
              change == { o \in outs : o[1] = "change" }
              asked == \E n \in DOMAIN loc[p].calls :
                          loc[p].calls[n] = "GetNewAddress"
          IN  /\ { o \in outs : o[1] = "address" }
                    = {<<"address", loc[p].amt>>}
              /\ change /= {} <=> loc[p].changeAmt > 0
              /\ asked <=> loc[p].changeAmt > 0
              /\ change \subseteq {<<"change", loc[p].changeAmt>>}
              /\ SeqSum(loc[p].selected) - OutputSum(outs)
                    = loc[p].requiredFee

\* C20: the removal that ends a successful craft takes exactly the selected
\* outputs out of the cache: every cached output that was not selected is
\* still in the cache afterwards, unchanged, and no selected output is.
C20_CraftFrame ==
    [][\A p \in Procs :
          loc[p].pc = "l198" /\ loc'[p].pc = "l200" =>
             LET selected == { loc[p].selected[n] :
                                 n \in DOMAIN loc[p].selected }
             IN  /\ \A k \in DOMAIN unspent :
                       unspent[k] \notin selected
                          => k \in DOMAIN unspent' /\ unspent'[k] = unspent[k]
                 /\ MapValues(unspent') = MapValues(unspent) \ selected]_vars

\* goroutine p is about to make a node call of craftTransaction: the
\* unlock-all (line 121), a lock call (line 165), the change-address call
\* (line 183) or the raw-transaction assembly (line 191)
AtCraftNodeCall(p) == loc[p].pc \in {"l121", "l165", "l183", "l191"}

\* C21: a goroutine making one of craftTransaction's own node calls does
\* not hold c.unspentSyncMtx; the one node call a goroutine makes while it
\* is the holder of c.unspentSyncMtx is the list-unspent query of
\* syncUnspent.
C21_NoNodeCallUnderCacheLock ==
    \A p \in Procs :
       /\ AtCraftNodeCall(p) => unspentSyncMtx /= p
       /\ unspentSyncMtx = p
             => loc[p].pc \in {"s82", "s88", "s90", "s76",
                               "l129", "l135", "l141", "l143",
                               "l198", "l200"}

\* a craft is at a lock call while another goroutine, holding the cache
\* lock, is at the list-unspent query
C21_Witness ==
    \E p, q \in Procs :
       /\ loc[p].pc = "l165"
       /\ loc[q].pc = "s82"
       /\ unspentSyncMtx = q

\* goroutine p is about to call c.unspentSyncMtx.Unlock()
AtCacheUnlock(p) == loc[p].pc \in {"l129", "l135", "l143", "l200", "s76"}

\* C22: whenever a goroutine is about to release the cache lock, it is the
\* goroutine that holds it; in particular a craft that found the cache nil
\* and synced it holds the lock it releases on its way to coin selection.
C22_CacheLockDiscipline ==
    \A p \in Procs : AtCacheUnlock(p) => unspentSyncMtx = p

\* C23: a craft call that has not returned can always go on: some step of
\* the program is possible (so that, under fair scheduling and with node
\* calls that return, it returns in the end).
C23_CraftCanGoOn ==
    (\E p \in Procs : loc[p].inCraft) => ENABLED Next

\* the whole set covers the target plus the fee of a transaction that
\* spends every output of the set and has two outputs (plain integers)
SufficientFunds(p) ==
    SetSum(MapValues(unspent))
       >= loc[p].amt
            + loc[p].feeRate * Weight(Cardinality(DOMAIN unspent), 2)

\* C24: when the funds are sufficient in that sense, coinSelect does not
\* return ErrInsufficientFunds, whatever the iteration orders of its rounds.
C24_SufficientFundsSucceed ==
    \A p \in Procs : SufficientFunds(p) => ~Insufficient(p)

\* the outpoints spent by the transactions returned so far, none of which
\* is broadcast
Consumed == UNION { InputsOf(returned[n]) : n \in DOMAIN returned }

\* C25: an output spent by a returned transaction is not in the cache, also
\* after later syncs and after a later craft's unlock-all.
C25_ConsumedStayOut ==
    \A k \in DOMAIN unspent : OutPoint(unspent[k]) \notin Consumed

\* the sum of all but the last element of a sequence of outputs
AllButLastSum(s) == SeqSum(SubSeq(s, 1, Len(s) - 1))

\* C26: with feeRatePerWeight = 0 coinSelect succeeds exactly when the set
\* sums to at least the target; it returns after its first round, with
\* requiredFee = 0 and changeAmt = sum(selected) - target; without its last
\* element the selection sums to less than the target; for the set {5, 3}
\* and target 6 both outputs are selected and the change is 2.
C26_ZeroFeeRate ==
    \A p \in Procs :
       loc[p].inCraft /\ loc[p].feeRate = 0 =>
          LET total == SetSum(MapValues(unspent))
              sel == loc[p].selected
          IN  /\ ~loc[p].retried
              /\ total >= loc[p].amt => ~Insufficient(p)
              /\ total < loc[p].amt => ~Selected(p)
              /\ Selected(p) =>
                    /\ loc[p].requiredFee = 0
                    /\ loc[p].changeAmt = SeqSum(sel) - loc[p].amt
                    /\ SeqSum(sel) >= loc[p].amt
                    /\ sel /= <<>> => AllButLastSum(sel) < loc[p].amt
                    /\ { u.Amount : u \in MapValues(unspent) } = {5, 3}
                          /\ Cardinality(DOMAIN unspent) = 2
                          /\ loc[p].amt = 6
                          => Len(sel) = 2 /\ loc[p].changeAmt = 2

\* C27: the required fee coinSelect returns is not negative and is the
\* product of the fee rate and the weight of the selection (as plain
\* integers), and the change amount is at most sum(selected) - target.
C27_FeeDoesNotWrap ==
    \A p \in Procs :
       Selected(p) =>
          /\ loc[p].requiredFee >= 0
          /\ loc[p].requiredFee
                = loc[p].feeRate * Weight(Len(loc[p].selected), 2)
          /\ loc[p].changeAmt <= SeqSum(loc[p].selected) - loc[p].amt

(***************************************************************************)
(* pscli sendpayment (cmd/pscli/commands.go, sendPayment).  The command    *)
(* reads the flags media, asset, amount and receipt, and calls             *)
(* client.SendPayment once.  cli.requests is the sequence of requests the  *)
(* client has sent.                                                        *)
(***************************************************************************)
MediaValues == {"bl", "blockchain", "li", "lightning", "Lightning", ""}

AssetValues ==
    {"btc", "bitcoin", "BTC", "bch", "bitcoincash", "ltc", "litecoin",
     "eth", "ethereum", "dash", "Dash", "xrp", ""}

AmountValues == {"0.1", ""}

ReceiptValues == {"receipt", ""}

Given(values) == { Flag(TRUE, v) : v \in values }

\* strings.ToLower, on the values above
ToLower(s) ==
    CASE s = "BTC" -> "btc"
      [] s = "Dash" -> "dash"
      [] s = "Lightning" -> "lightning"
      [] OTHER -> s

\* lines 449-459: the media a value of the flag stands for ("" if none)
MediaOf(stringMedia) ==
    CASE stringMedia \in {"bl", "blockchain"} -> "BLOCKCHAIN"
      [] stringMedia \in {"li", "lightning"} -> "LIGHTNING"
      [] OTHER -> ""

\* lines 467-481: the asset a lower-case value of the flag stands for
AssetOf(stringAsset) ==
    CASE stringAsset \in {"btc", "bitcoin"} -> "BTC"
      [] stringAsset \in {"bch", "bitcoincash"} -> "BCH"
      [] stringAsset \in {"ltc", "litecoin"} -> "LTC"
      [] stringAsset \in {"eth", "ethereum"} -> "ETH"
      [] stringAsset = "dash" -> "DASH"
      [] OTHER -> ""

InitSend ==
    /\ unspent = EmptyMap
    /\ unspentIsNil = TRUE
    /\ coinSelectMtx = 0
    /\ unspentSyncMtx = 0
    /\ nodeLocked = {}
    /\ loc = [p \in Procs |-> Idle]
    /\ crafts = 0
    /\ returned = <<>>
    /\ crashed = FALSE
    /\ \E m \in {Unset} \cup Given(MediaValues),
          a \in {Unset} \cup Given(AssetValues),
          n \in {Unset} \cup Given(AmountValues),
          r \in {Unset} \cup Given(ReceiptValues) :
          cli = [NoCommand EXCEPT
                   !.pc = "media",
                   !.flags = [media |-> m, asset |-> a, amount |-> n,
                              receipt |-> r]]

CliFail(e) == cli' = [cli EXCEPT !.pc = "returned", !.err = e]

\* lines 446-461: the media flag
ParseMedia ==
    /\ cli.pc = "media"
    /\ IF ~cli.flags.media.set
       THEN CliFail("media argument missing")
       ELSE IF MediaOf(cli.flags.media.value) = ""
       THEN CliFail("invalid media type")
       ELSE cli' = [cli EXCEPT !.pc = "asset",
                               !.media = MediaOf(cli.flags.media.value)]
    /\ UNCHANGED connectorVars

\* lines 463-483: the asset flag
ParseAsset ==
    /\ cli.pc = "asset"
    /\ LET stringAsset == ToLower(cli.flags.asset.value)
       IN  IF ~cli.flags.asset.set
           THEN CliFail("asset argument missing")
           ELSE IF AssetOf(stringAsset) = ""
           THEN CliFail("invalid asset")
           ELSE cli' = [cli EXCEPT !.pc = "amount",
                                   !.asset = AssetOf(stringAsset)]
    /\ UNCHANGED connectorVars

\* sendPayment that does not ask for the amount of a blockchain payment
ParseAmountOptional ==
    /\ cli.pc = "amount"
    /\ cli' = [cli EXCEPT !.pc = "receipt",
                          !.amount = cli.flags.amount.value]
    /\ UNCHANGED connectorVars

\* lines 485-492: the amount flag
ParseAmount ==
    /\ cli.pc = "amount"
    /\ IF cli.flags.amount.set
       THEN cli' = [cli EXCEPT !.pc = "receipt",
                               !.amount = cli.flags.amount.value]
       ELSE IF cli.media = "BLOCKCHAIN"
       THEN CliFail("amount argument is missing")
       ELSE cli' = [cli EXCEPT !.pc = "receipt"]
    /\ UNCHANGED connectorVars

\* lines 494-498: the receipt flag
ParseReceipt ==
    /\ cli.pc = "receipt"
    /\ IF cli.flags.receipt.set
       THEN cli' = [cli EXCEPT !.pc = "send",
                               !.receipt = cli.flags.receipt.value]
       ELSE CliFail("receipt argument is missing")
    /\ UNCHANGED connectorVars

\* the request of lines 501-506
SendPaymentRequest ==
    [Asset |-> cli.asset, Media |-> cli.media, Amount |-> cli.amount,
     Receipt |-> cli.receipt]

\* lines 500-511: client.SendPayment returns a response, which is printed
SendPayment ==
    /\ cli.pc = "send"
    /\ cli' = [cli EXCEPT !.pc = "returned",
                          !.requests = Append(@, SendPaymentRequest)]
    /\ UNCHANGED connectorVars

\* lines 500-509: client.SendPayment returns an error
SendPaymentFail ==
    /\ cli.pc = "send"
    /\ cli' = [cli EXCEPT !.pc = "returned", !.err = "rpc",
                          !.requests = Append(@, SendPaymentRequest)]
    /\ UNCHANGED connectorVars

NextSend ==
    \/ ParseMedia
    \/ ParseAsset
    \/ ParseAmount
    \/ ParseReceipt
    \/ SendPayment
    \/ SendPaymentFail

SpecSend == InitSend /\ [][NextSend]_vars

\* C28: a SendPayment request is sent only when the media flag is given
\* with a supported value, the asset flag is given with a supported value,
\* the receipt flag is given, and the amount flag is given or the media is
\* lightning; the request carries what the flags say; a command that
\* fails validation returns its error having sent nothing.
C28_SendAfterValidation ==
    LET f == cli.flags
    IN  /\ Len(cli.requests) <= 1
        /\ cli.requests /= <<>> =>
              /\ cli.pc = "returned"
              /\ f.media.set
              /\ f.media.value \in {"bl", "blockchain", "li", "lightning"}
              /\ f.asset.set
              /\ ToLower(f.asset.value) \in
                    {"btc", "bitcoin", "bch", "bitcoincash", "ltc",
                     "litecoin", "eth", "ethereum", "dash"}
              /\ f.receipt.set
              /\ f.amount.set \/ f.media.value \in {"li", "lightning"}
              /\ cli.requests[1] =
                    [Asset |-> AssetOf(ToLower(f.asset.value)),
                     Media |-> MediaOf(f.media.value),
                     Amount |-> f.amount.value,
                     Receipt |-> f.receipt.value]
              /\ cli.err \in {"", "rpc"}
        /\ cli.err \notin {"", "rpc"} => cli.requests = <<>>
        /\ cli.pc = "returned" /\ cli.requests = <<>> =>
              \/ ~f.media.set
              \/ MediaOf(f.media.value) = ""
              \/ ~f.asset.set
              \/ AssetOf(ToLower(f.asset.value)) = ""
              \/ ~f.receipt.set
              \/ ~f.amount.set /\ MediaOf(f.media.value) = "BLOCKCHAIN"

\* a lightning payment was sent without an amount
C28_Witness ==
    /\ cli.requests /= <<>>
    /\ ~cli.flags.amount.set
    /\ cli.requests[1].Media = "LIGHTNING"
    /\ cli.requests[1].Amount = ""
    /\ cli.flags.asset.value = "BTC"

=============================================================================
